---- MODULE Spec2Model ----
(***************************************************************************)
(* argv2object: conversion of the process argument list into a key-value   *)
(* object (src/src/argv2Object.mjs, src/src/functions.mjs,                 *)
(* src/src/constants.mjs).                                                 *)
(*                                                                         *)
(* A JavaScript string is a sequence of one-character strings, so that     *)
(* regular expressions, split, replace, parseFloat and Number can be       *)
(* computed character by character.                                        *)
(***************************************************************************)
EXTENDS Integers, Sequences, FiniteSets, TLC

\* ------------------------------------------------------------------------
\* Bounds of the model
\* ------------------------------------------------------------------------
\* largest number of tokens after the two conventional entries of process.argv
MaxArgs == 2
\* largest total number of characters of the tokens of one argument list
MaxChars == 4
\* largest length of a raw value handed to convertValue on its own
MaxValLen == 4

\* ------------------------------------------------------------------------
\* Characters
\* ------------------------------------------------------------------------
Lower == {"a", "b", "c", "d", "e", "f", "g", "h", "i", "j", "k", "l", "m",
          "n", "o", "p", "q", "r", "s", "t", "u", "v", "w", "x", "y", "z"}
Upper == {"A", "B", "C", "D", "E", "F", "G", "H", "I", "J", "K", "L", "M",
          "N", "O", "P", "Q", "R", "S", "T", "U", "V", "W", "X", "Y", "Z"}
Digit == {"0", "1", "2", "3", "4", "5", "6", "7", "8", "9"}
\* the characters the regular expression atom . does not match
LineTerminator == {"\n", "\r"}
WhiteSpace == {" ", "\t", "\n", "\r", "\f"}

\* ------------------------------------------------------------------------
\* Regular expressions (the subset of ECMAScript the sources use)
\* ------------------------------------------------------------------------
Chr(S) == [t |-> "chr", set |-> S, neg |-> FALSE]
NotChr(S) == [t |-> "chr", set |-> S, neg |-> TRUE]
Lit(c) == Chr({c})
Dot == NotChr(LineTerminator)
Bol == [t |-> "bol"]
Eol == [t |-> "eol"]
Cat(ps) == [t |-> "cat", parts |-> ps]
Alt(ps) == [t |-> "alt", parts |-> ps]
Star(r) == [t |-> "star", r |-> r]
Plus(r) == Cat(<<r, Star(r)>>)
Opt(r) == Alt(<<r, Cat(<<>>)>>)

\* Ends(re, s, i): the positions j such that re matches s from position i
\* (i characters already consumed) up to position j.
RECURSIVE Ends(_, _, _)
Ends(re, s, i) ==
  CASE re.t = "chr" ->
         IF i < Len(s) /\ ((s[i + 1] \in re.set) # re.neg) THEN {i + 1} ELSE {}
    [] re.t = "bol" -> IF i = 0 THEN {i} ELSE {}
    [] re.t = "eol" -> IF i = Len(s) THEN {i} ELSE {}
    [] re.t = "cat" ->
         IF Len(re.parts) = 0 THEN {i}
         ELSE UNION {Ends(Cat(Tail(re.parts)), s, j) :
                       j \in Ends(Head(re.parts), s, i)}
    [] re.t = "alt" -> UNION {Ends(re.parts[k], s, i) : k \in DOMAIN re.parts}
    [] re.t = "star" ->
         {i} \cup UNION {Ends(re, s, j) : j \in Ends(re.r, s, i) \ {i}}

\* RegExp.prototype.test without the g or y flag: a match starting anywhere.
RegExpTest(re, s) == \E i \in 0..Len(s) : Ends(re, s, i) # {}

\* ------------------------------------------------------------------------
\* src/src/constants.mjs
\* ------------------------------------------------------------------------
Alpha == Lower \cup Upper

\* a short flag of one or more letters: /^-[a-zA-Z]+(=.*)?$/
UNIXMODE_SHORT_Cluster ==
  Cat(<<Bol, Lit("-"), Plus(Chr(Alpha)), Opt(Cat(<<Lit("="), Star(Dot)>>)), Eol>>)

\* a short flag whose dash is optional: /^-?[a-zA-Z](=.*)?$/
UNIXMODE_SHORT_OptionalDash ==
  Cat(<<Bol, Opt(Lit("-")), Chr(Alpha), Opt(Cat(<<Lit("="), Star(Dot)>>)), Eol>>)

\* a short flag matched as a prefix only: /^-[a-zA-Z]/
UNIXMODE_SHORT_Prefix == Cat(<<Bol, Lit("-"), Chr(Alpha)>>)

\* SHORT: /^-[a-zA-Z](=.*)?$/
UNIXMODE_SHORT ==
  Cat(<<Bol, Lit("-"), Chr(Alpha), Opt(Cat(<<Lit("="), Star(Dot)>>)), Eol>>)

\* LONG: /^--[a-zA-Z][a-zA-Z0-9-]*(=.*)?$/
UNIXMODE_LONG ==
  Cat(<<Bol, Lit("-"), Lit("-"), Chr(Alpha),
        Star(Chr(Alpha \cup Digit \cup {"-"})),
        Opt(Cat(<<Lit("="), Star(Dot)>>)), Eol>>)

\* a simple pattern whose '=' and value are optional:
\* /^[a-zA-Z]+(?:-[a-zA-Z]+)*(=.*)?$/
SIMPLE_OptionalValue ==
  Cat(<<Bol, Plus(Chr(Alpha)), Star(Cat(<<Lit("-"), Plus(Chr(Alpha))>>)),
        Opt(Cat(<<Lit("="), Star(Dot)>>)), Eol>>)

\* SIMPLE: /^[a-zA-Z]+(?:-[a-zA-Z]+)*=.*$/
SIMPLE ==
  Cat(<<Bol, Plus(Chr(Alpha)), Star(Cat(<<Lit("-"), Plus(Chr(Alpha))>>)),
        Lit("="), Star(Dot), Eol>>)

COMMAND_LINE_PATTERNS ==
  [UNIXMODE |-> [SHORT |-> UNIXMODE_SHORT, LONG |-> UNIXMODE_LONG],
   SIMPLE |-> SIMPLE]

\* the messages of the earlier version of the entry function
ERROR_MESSAGES_Old ==
  [INVALID_UNIXMODE_TYPE |-> "The \"unixmode\" value must be a boolean type",
   NO_ARGUMENTS |-> "No arguments added",
   NO_MATCH_SIMPLE |-> "Some argument(s) do not follow the 'key=value' format.",
   NO_MATCH_UNIXMODE |->
     "Some argument(s) do not follow the Unix-style command-line format."]

ERROR_MESSAGES ==
  [INVALID_UNIXMODE_TYPE |-> "The \"unixmode\" parameter must be a boolean value",
   NO_ARGUMENTS |-> "No command-line arguments were provided",
   NO_MATCH_SIMPLE |-> "Arguments must follow \"key=value\" format",
   NO_MATCH_UNIXMODE |->
     "Arguments must follow Unix-style format (-a, --option=value)"]

\* ------------------------------------------------------------------------
\* JavaScript values and completions
\* ------------------------------------------------------------------------
Undefined == [type |-> "undefined"]
Str(s) == [type |-> "string", s |-> s]
Bool(b) == [type |-> "boolean", b |-> b]
Num(n) == [type |-> "number", n |-> n]

\* numbers: NaN, the two infinities, and the finite decimals m * 10^e
NaN == [k |-> "nan"]
Infinite(neg) == [k |-> "inf", neg |-> neg]
Finite(neg, m, e) == [k |-> "fin", neg |-> neg, m |-> m, e |-> e]

Return(v) == [status |-> "returned", value |-> v]
Throw(name, message) == [status |-> "threw", name |-> name, message |-> message]

\* ------------------------------------------------------------------------
\* String.prototype.split(separator) for a one-character separator
\* ------------------------------------------------------------------------
RECURSIVE split(_, _)
split(s, c) ==
  IF \A i \in DOMAIN s : s[i] # c THEN <<s>>
  ELSE LET p == CHOOSE i \in DOMAIN s : s[i] = c /\ \A j \in 1..(i - 1) : s[j] # c
       IN  <<SubSeq(s, 1, p - 1)>> \o split(SubSeq(s, p + 1, Len(s)), c)

\* ------------------------------------------------------------------------
\* String.prototype.replace and toUpperCase as formatKey uses them
\* ------------------------------------------------------------------------
Max(S) == CHOOSE x \in S : \A y \in S : y <= x

\* s.replace(re, '') for a pattern without the g flag whose quantifiers are
\* all greedy: the leftmost match, taken as long as it can be, is removed.
RemoveFirstMatch(re, s) ==
  IF ~RegExpTest(re, s) THEN s
  ELSE LET i == CHOOSE a \in 0..Len(s) :
                   /\ Ends(re, s, a) # {}
                   /\ \A b \in 0..(a - 1) : Ends(re, s, b) = {}
           j == Max(Ends(re, s, i))
       IN  SubSeq(s, 1, i) \o SubSeq(s, j + 1, Len(s))

LowerSeq == <<"a", "b", "c", "d", "e", "f", "g", "h", "i", "j", "k", "l", "m",
              "n", "o", "p", "q", "r", "s", "t", "u", "v", "w", "x", "y", "z">>
UpperSeq == <<"A", "B", "C", "D", "E", "F", "G", "H", "I", "J", "K", "L", "M",
              "N", "O", "P", "Q", "R", "S", "T", "U", "V", "W", "X", "Y", "Z">>

toUpperCase(c) ==
  IF c \in Lower THEN UpperSeq[CHOOSE i \in DOMAIN LowerSeq : LowerSeq[i] = c]
  ELSE c

\* s.replace(/-([a-z])/g, (_, char) => char.toUpperCase())
RECURSIVE ReplaceHyphenLower(_)
ReplaceHyphenLower(s) ==
  IF Len(s) = 0 THEN <<>>
  ELSE IF s[1] = "-" /\ Len(s) >= 2 /\ s[2] \in Lower
       THEN <<toUpperCase(s[2])>> \o ReplaceHyphenLower(SubSeq(s, 3, Len(s)))
       ELSE <<s[1]>> \o ReplaceHyphenLower(Tail(s))

\* s.replace(/-/g, '_')
ReplaceHyphens(s) == [i \in DOMAIN s |-> IF s[i] = "-" THEN "_" ELSE s[i]]

\* ------------------------------------------------------------------------
\* src/src/functions.mjs: formatKey
\* ------------------------------------------------------------------------
\* any number of leading dashes: /^-+/
LeadingDashes_All == Cat(<<Bol, Plus(Lit("-"))>>)

\* /^-{1,2}/
LeadingDashes == Cat(<<Bol, Lit("-"), Opt(Lit("-"))>>)

\* the two formatting modes, as the strings a caller passes
camelcase == Str(<<"c", "a", "m", "e", "l", "c", "a", "s", "e">>)
snakecase == Str(<<"s", "n", "a", "k", "e", "c", "a", "s", "e">>)

formatKey(key, mode) ==
  IF key.type # "string" THEN Throw("TypeError", "Key must be a string")
  ELSE LET sanitizedKey == RemoveFirstMatch(LeadingDashes, key.s)
       IN  IF mode = camelcase THEN Return(Str(ReplaceHyphenLower(sanitizedKey)))
           ELSE IF mode = snakecase THEN Return(Str(ReplaceHyphens(sanitizedKey)))
           ELSE Return(Str(sanitizedKey))

\* ------------------------------------------------------------------------
\* parseFloat and Number on strings (ECMAScript StringNumericLiteral)
\* ------------------------------------------------------------------------
RECURSIVE TrimStart(_)
TrimStart(s) ==
  IF Len(s) > 0 /\ s[1] \in WhiteSpace THEN TrimStart(Tail(s)) ELSE s

RECURSIVE TrimEnd(_)
TrimEnd(s) ==
  IF Len(s) > 0 /\ s[Len(s)] \in WhiteSpace
  THEN TrimEnd(SubSeq(s, 1, Len(s) - 1)) ELSE s

Word(w) == Cat([i \in DOMAIN w |-> Lit(w[i])])
Sign == Opt(Chr({"+", "-"}))
DecimalDigits == Plus(Chr(Digit))
ExponentPart == Cat(<<Chr({"e", "E"}), Sign, DecimalDigits>>)

\* StrDecimalLiteral ::: [+-]? (Infinity | digits (. digits?)? exp? | . digits exp?)
StrDecimalLiteral ==
  Cat(<<Sign,
        Alt(<<Word(<<"I", "n", "f", "i", "n", "i", "t", "y">>),
              Cat(<<DecimalDigits, Opt(Cat(<<Lit("."), Star(Chr(Digit))>>)),
                    Opt(ExponentPart)>>),
              Cat(<<Lit("."), DecimalDigits, Opt(ExponentPart)>>)>>)>>)

HexLetterLower == <<"a", "b", "c", "d", "e", "f">>
HexLetterUpper == <<"A", "B", "C", "D", "E", "F">>
HexLetter == {"a", "b", "c", "d", "e", "f", "A", "B", "C", "D", "E", "F"}

\* NonDecimalIntegerLiteral ::: 0[xX]hex+ | 0[oO]octal+ | 0[bB]binary+
NonDecimalIntegerLiteral ==
  Alt(<<Cat(<<Lit("0"), Chr({"x", "X"}), Plus(Chr(Digit \cup HexLetter))>>),
        Cat(<<Lit("0"), Chr({"o", "O"}),
              Plus(Chr({"0", "1", "2", "3", "4", "5", "6", "7"}))>>),
        Cat(<<Lit("0"), Chr({"b", "B"}), Plus(Chr({"0", "1"}))>>)>>)

FullMatch(re, s) == Len(s) \in Ends(re, s, 0)

DigitSeq == <<"0", "1", "2", "3", "4", "5", "6", "7", "8", "9">>

DigitVal(c) ==
  IF c \in Digit THEN (CHOOSE i \in DOMAIN DigitSeq : DigitSeq[i] = c) - 1
  ELSE IF \E i \in DOMAIN HexLetterLower : HexLetterLower[i] = c
       THEN 9 + CHOOSE i \in DOMAIN HexLetterLower : HexLetterLower[i] = c
       ELSE 9 + CHOOSE i \in DOMAIN HexLetterUpper : HexLetterUpper[i] = c

RECURSIVE DigitsValue(_, _)
DigitsValue(ds, base) ==
  IF Len(ds) = 0 THEN 0
  ELSE DigitsValue(SubSeq(ds, 1, Len(ds) - 1), base) * base + DigitVal(ds[Len(ds)])

RECURSIVE NumDigits(_)
NumDigits(m) == IF m < 10 THEN 1 ELSE 1 + NumDigits(m \div 10)

RECURSIVE Pow10(_)
Pow10(n) == IF n = 0 THEN 1 ELSE 10 * Pow10(n - 1)

\* the first four significant digits of m
Leading4(m) ==
  IF NumDigits(m) >= 4 THEN m \div Pow10(NumDigits(m) - 4)
  ELSE m * Pow10(4 - NumDigits(m))

\* The double nearest to m * 10^e, as a decimal without trailing zeros: the
\* magnitudes from 1.798e308 up round to Infinity, those below 1e-324 to 0.
RECURSIVE RoundToDouble(_, _, _)
RoundToDouble(neg, m, e) ==
  IF m = 0 THEN Finite(neg, 0, 0)
  ELSE IF m % 10 = 0 THEN RoundToDouble(neg, m \div 10, e + 1)
  ELSE LET p == NumDigits(m) + e
       IN  IF p > 309 \/ (p = 309 /\ Leading4(m) >= 1798) THEN Infinite(neg)
           ELSE IF p < -323 THEN Finite(neg, 0, 0)
           ELSE Finite(neg, m, e)

FirstIndex(s, S) ==
  IF \E i \in DOMAIN s : s[i] \in S
  THEN CHOOSE i \in DOMAIN s : s[i] \in S /\ \A j \in 1..(i - 1) : s[j] \notin S
  ELSE 0

\* the value of a string that is a StrDecimalLiteral
StrDecimalValue(lit) ==
  LET neg == lit[1] = "-"
      body == IF lit[1] \in {"+", "-"} THEN Tail(lit) ELSE lit
      ePos == FirstIndex(body, {"e", "E"})
      mant == IF ePos = 0 THEN body ELSE SubSeq(body, 1, ePos - 1)
      expo == IF ePos = 0 THEN <<>> ELSE SubSeq(body, ePos + 1, Len(body))
      expDigits == IF Len(expo) > 0 /\ expo[1] \in {"+", "-"} THEN Tail(expo) ELSE expo
      expVal == IF Len(expo) > 0 /\ expo[1] = "-"
                THEN 0 - DigitsValue(expDigits, 10) ELSE DigitsValue(expDigits, 10)
      dotPos == FirstIndex(mant, {"."})
      int == IF dotPos = 0 THEN mant ELSE SubSeq(mant, 1, dotPos - 1)
      frac == IF dotPos = 0 THEN <<>> ELSE SubSeq(mant, dotPos + 1, Len(mant))
  IN  IF body[1] = "I" THEN Infinite(neg)
      ELSE RoundToDouble(neg, DigitsValue(int \o frac, 10), expVal - Len(frac))

\* parseFloat(string): the value of the longest prefix of the left-trimmed
\* string that is a StrDecimalLiteral, NaN when there is none
parseFloat(s) ==
  LET trimmed == TrimStart(s)
      ends == Ends(StrDecimalLiteral, trimmed, 0)
  IN  IF ends = {} THEN NaN ELSE StrDecimalValue(SubSeq(trimmed, 1, Max(ends)))

\* Number(string): the whole trimmed string as a StringNumericLiteral
StringToNumber(s) ==
  LET t == TrimEnd(TrimStart(s))
  IN  IF Len(t) = 0 THEN Finite(FALSE, 0, 0)
      ELSE IF FullMatch(StrDecimalLiteral, t) THEN StrDecimalValue(t)
      ELSE IF FullMatch(NonDecimalIntegerLiteral, t)
           THEN RoundToDouble(FALSE,
                  DigitsValue(SubSeq(t, 3, Len(t)),
                              IF t[2] \in {"x", "X"} THEN 16
                              ELSE IF t[2] \in {"o", "O"} THEN 8 ELSE 2), 0)
      ELSE NaN

\* Number.isNaN(value): no coercion, true for the number NaN alone
NumberIsNaN(value) == value.type = "number" /\ value.n = NaN

\* ------------------------------------------------------------------------
\* src/src/functions.mjs: convertValue
\* ------------------------------------------------------------------------
\* convertValue with Number(value) alone as the numeric test
convertValue_NumberOnly(value) ==
  IF value = Undefined THEN Bool(TRUE)
  ELSE IF value = Str(<<"t", "r", "u", "e">>) THEN Bool(TRUE)
  ELSE IF value = Str(<<"f", "a", "l", "s", "e">>) THEN Bool(FALSE)
  ELSE IF ~NumberIsNaN(Num(StringToNumber(value.s)))
       THEN Num(StringToNumber(value.s))
  ELSE value

\* convertValue with the truthiness of parseFloat(value) as the numeric test
convertValue_TruthyNumber(value) ==
  IF value = Undefined THEN Bool(TRUE)
  ELSE IF value = Str(<<"t", "r", "u", "e">>) THEN Bool(TRUE)
  ELSE IF value = Str(<<"f", "a", "l", "s", "e">>) THEN Bool(FALSE)
  ELSE IF parseFloat(value.s) # NaN /\ ~(parseFloat(value.s).k = "fin" /\ parseFloat(value.s).m = 0)
       THEN Num(StringToNumber(value.s))
  ELSE value

\* convertValue without the line of the literal 'false'
convertValue_FalseKept(value) ==
  IF value = Undefined THEN Bool(TRUE)
  ELSE IF value = Str(<<"t", "r", "u", "e">>) THEN Bool(TRUE)
  ELSE IF ~NumberIsNaN(value) /\ ~NumberIsNaN(Num(parseFloat(value.s)))
       THEN Num(StringToNumber(value.s))
  ELSE value

convertValue(value) ==
  IF value = Undefined THEN Bool(TRUE)
  ELSE IF value = Str(<<"t", "r", "u", "e">>) THEN Bool(TRUE)
  ELSE IF value = Str(<<"f", "a", "l", "s", "e">>) THEN Bool(FALSE)
  ELSE IF ~NumberIsNaN(value) /\ ~NumberIsNaN(Num(parseFloat(value.s)))
       THEN Num(StringToNumber(value.s))
  ELSE value

\* ------------------------------------------------------------------------
\* src/src/argv2Object.mjs
\* ------------------------------------------------------------------------
\* import { REGEXPS, THROWS_ERRORS_MESSAGES } from '#constants': the messages
\* the entry function throws are those of ERROR_MESSAGES (as the tests expect)
THROWS_ERRORS_MESSAGES == ERROR_MESSAGES

\* REGEXPS.SIMPLE.test(argumentv)
SimpleTest(argumentv) == RegExpTest(COMMAND_LINE_PATTERNS.SIMPLE, argumentv)

\* REGEXPS.UNIXMODE.test(argumentv): a token passes when it is a short flag
\* or a long flag
UnixmodeTest(argumentv) ==
  \/ RegExpTest(COMMAND_LINE_PATTERNS.UNIXMODE.SHORT, argumentv)
  \/ RegExpTest(COMMAND_LINE_PATTERNS.UNIXMODE.LONG, argumentv)

\* Array.prototype.slice(0)
slice0(a) == a

\* Array.prototype.slice(1)
slice1(a) == SubSeq(a, 2, Len(a))

\* Array.prototype.slice(2)
slice2(a) == SubSeq(a, 3, Len(a))

\* the receiver of splice(2) keeps its first two entries
receiverAfterSplice(a) == SubSeq(a, 1, IF Len(a) < 2 THEN Len(a) ELSE 2)

\* the receiver of slice(2): slice copies, its receiver stays as it was
receiverAfterSlice(a) == a

\* const regexp = unixmode ? REGEXPS.UNIXMODE : REGEXPS.SIMPLE; regexp.test(argumentv)
regexpTest(unixmode, argumentv) ==
  IF unixmode THEN UnixmodeTest(argumentv) ELSE SimpleTest(argumentv)

\* argumentsv.some(argumentv => regexp.test(argumentv))
someMatches(unixmode, argumentsv) ==
  \E i \in DOMAIN argumentsv : regexpTest(unixmode, argumentsv[i])

\* argumentsv.every(argumentv => regexp.test(argumentv))
everyMatches(unixmode, argumentsv) ==
  \A i \in DOMAIN argumentsv : regexpTest(unixmode, argumentsv[i])

\* the two messages the wrong way round
mismatchMessage_Swapped(unixmode) ==
  IF unixmode THEN THROWS_ERRORS_MESSAGES.NO_MATCH_SIMPLE
  ELSE THROWS_ERRORS_MESSAGES.NO_MATCH_UNIXMODE

\* const message = unixmode ? NO_MATCH_UNIXMODE : NO_MATCH_SIMPLE
mismatchMessage(unixmode) ==
  IF unixmode THEN THROWS_ERRORS_MESSAGES.NO_MATCH_UNIXMODE
  ELSE THROWS_ERRORS_MESSAGES.NO_MATCH_SIMPLE

\* the destructuring that takes the key from a token with an '=' only
DestructureKV_KeyMissing(argumentv) ==
  LET pieces == split(argumentv, "=")
  IN  [k |-> IF Len(pieces) >= 2 THEN Str(pieces[1]) ELSE Undefined,
       v |-> IF Len(pieces) >= 2 THEN Str(pieces[2]) ELSE Undefined]

\* the destructuring with an empty string where a piece is missing
DestructureKV_EmptyValue(argumentv) ==
  LET pieces == split(argumentv, "=")
  IN  [k |-> Str(pieces[1]),
       v |-> IF Len(pieces) >= 2 THEN Str(pieces[2]) ELSE Str(<< >>)]

\* const [k, v] = argumentv.split('='): the first two pieces, v undefined
\* when there is one piece only
DestructureKV(argumentv) ==
  LET pieces == split(argumentv, "=")
  IN  [k |-> Str(pieces[1]),
       v |-> IF Len(pieces) >= 2 THEN Str(pieces[2]) ELSE Undefined]

\* the callback with the keys in camel case
Entry_Camel(argumentv) ==
  LET kv == DestructureKV(argumentv)
      formattedKey == formatKey(kv.k, camelcase)
  IN  IF formattedKey.status = "threw" THEN formattedKey
      ELSE Return([key |-> formattedKey.value.s, value |-> convertValue(kv.v)])

\* the callback with the keys left as formatKey sanitizes them, no
\* formatting mode applied
Entry_Sanitized(argumentv) ==
  LET kv == DestructureKV(argumentv)
      formattedKey == formatKey(kv.k, Undefined)
  IN  IF formattedKey.status = "threw" THEN formattedKey
      ELSE Return([key |-> formattedKey.value.s, value |-> convertValue(kv.v)])

\* the callback of argumentsv.map: the completion of [key, value]
Entry(argumentv) ==
  LET kv == DestructureKV(argumentv)
      formattedKey == formatKey(kv.k, snakecase)
  IN  IF formattedKey.status = "threw" THEN formattedKey
      ELSE Return([key |-> formattedKey.value.s, value |-> convertValue(kv.v)])

\* an object of the entries in which an earlier entry is kept
RECURSIVE fromEntries_FirstWins(_)
fromEntries_FirstWins(entries) ==
  IF Len(entries) = 0 THEN << >>
  ELSE LET obj == fromEntries_FirstWins(SubSeq(entries, 1, Len(entries) - 1))
           last == entries[Len(entries)]
       IN  [p \in DOMAIN obj \cup {last.key} |->
              IF p \in DOMAIN obj THEN obj[p] ELSE last.value]

\* Object.fromEntries(entries): a later entry overwrites an earlier one
RECURSIVE fromEntries(_)
fromEntries(entries) ==
  IF Len(entries) = 0 THEN << >>
  ELSE LET obj == fromEntries(SubSeq(entries, 1, Len(entries) - 1))
           last == entries[Len(entries)]
       IN  [p \in DOMAIN obj \cup {last.key} |->
              IF p = last.key THEN last.value ELSE obj[p]]

Obj(props) == [type |-> "object", props |-> props]

\* the first failure of the mapped entries, or the object of all of them
objectOf(mapped) ==
  IF \E i \in DOMAIN mapped : mapped[i].status = "threw"
  THEN mapped[CHOOSE i \in DOMAIN mapped :
                /\ mapped[i].status = "threw"
                /\ \A j \in 1..(i - 1) : mapped[j].status # "threw"]
  ELSE Return(Obj(fromEntries([i \in DOMAIN mapped |-> mapped[i].value])))

\* argv2Object without the default value of its parameter
argv2Object_NoDefault(unixmodeArg, processArgv) ==
  LET unixmode == unixmodeArg
      argumentsv == slice2(processArgv)
  IN  IF unixmode.type # "boolean"
      THEN Throw("TypeError", THROWS_ERRORS_MESSAGES.INVALID_UNIXMODE_TYPE)
      ELSE IF Len(argumentsv) = 0
      THEN Throw("Error", THROWS_ERRORS_MESSAGES.NO_ARGUMENTS)
      ELSE IF ~everyMatches(unixmode.b, argumentsv)
      THEN Throw("Error", mismatchMessage(unixmode.b))
      ELSE objectOf([i \in DOMAIN argumentsv |-> Entry(argumentsv[i])])

\* argv2Object with the empty check ahead of the type check
argv2Object_EmptyCheckFirst(unixmodeArg, processArgv) ==
  LET unixmode == IF unixmodeArg = Undefined THEN Bool(FALSE) ELSE unixmodeArg
      argumentsv == slice2(processArgv)
  IN  IF Len(argumentsv) = 0
      THEN Throw("Error", THROWS_ERRORS_MESSAGES.NO_ARGUMENTS)
      ELSE IF unixmode.type # "boolean"
      THEN Throw("TypeError", THROWS_ERRORS_MESSAGES.INVALID_UNIXMODE_TYPE)
      ELSE IF ~everyMatches(unixmode.b, argumentsv)
      THEN Throw("Error", mismatchMessage(unixmode.b))
      ELSE objectOf([i \in DOMAIN argumentsv |-> Entry(argumentsv[i])])

\* const argv2Object = (unixmode = false) => { ... }, over process.argv
argv2Object(unixmodeArg, processArgv) ==
  LET unixmode == IF unixmodeArg = Undefined THEN Bool(FALSE) ELSE unixmodeArg
      argumentsv == slice2(processArgv)
  IN  IF unixmode.type # "boolean"
      THEN Throw("TypeError", THROWS_ERRORS_MESSAGES.INVALID_UNIXMODE_TYPE)
      ELSE IF Len(argumentsv) = 0
      THEN Throw("Error", THROWS_ERRORS_MESSAGES.NO_ARGUMENTS)
      ELSE IF ~everyMatches(unixmode.b, argumentsv)
      THEN Throw("Error", mismatchMessage(unixmode.b))
      ELSE objectOf([i \in DOMAIN argumentsv |-> Entry(argumentsv[i])])

\* process.argv after argv2Object(unixmode): the call reaches process.argv
\* once, by slice(2), when the mode value is a boolean; every, map, split and
\* fromEntries work on the copy
argvAfter(unixmodeArg, processArgv) ==
  LET unixmode == IF unixmodeArg = Undefined THEN Bool(FALSE) ELSE unixmodeArg
  IN  IF unixmode.type # "boolean" THEN processArgv
      ELSE receiverAfterSlice(processArgv)

\* ------------------------------------------------------------------------
\* src/src/argv2Object.mjs over the pattern objects of the module, which
\* last from one call to the next
\* ------------------------------------------------------------------------
\* pattern literals with the g flag
PatternFlags_Global == {"g"}

\* the flags of the pattern literals of COMMAND_LINE_PATTERNS: none
PatternFlags == {}

Min(S) == CHOOSE x \in S : \A y \in S : x <= y

\* RegExp.prototype.test on a pattern object whose lastIndex is li: what it
\* returns and the lastIndex it leaves. Without the g and y flags lastIndex
\* is neither read nor written; with one of them the search starts at
\* lastIndex (with y it matches there only), a match sets lastIndex to its
\* end and a failure sets it to 0.
TestFrom(re, flags, s, li) ==
  IF "g" \notin flags /\ "y" \notin flags
  THEN [found |-> RegExpTest(re, s), lastIndex |-> li]
  ELSE LET starts == {i \in li..Len(s) :
                       /\ Ends(re, s, i) # {}
                       /\ "y" \in flags => i = li}
       IN  IF starts = {} THEN [found |-> FALSE, lastIndex |-> 0]
           ELSE [found |-> TRUE, lastIndex |-> Max(Ends(re, s, Min(starts)))]

\* REGEXPS.SIMPLE.test(argumentv)
SimpleTestFrom(argumentv, li) ==
  LET r == TestFrom(COMMAND_LINE_PATTERNS.SIMPLE, PatternFlags, argumentv, li.SIMPLE)
  IN  [found |-> r.found, lastIndex |-> [li EXCEPT !.SIMPLE = r.lastIndex]]

\* REGEXPS.UNIXMODE.test(argumentv): the short flag is tried, then the long
UnixmodeTestFrom(argumentv, li) ==
  LET short == TestFrom(COMMAND_LINE_PATTERNS.UNIXMODE.SHORT, PatternFlags,
                        argumentv, li.SHORT)
      long == TestFrom(COMMAND_LINE_PATTERNS.UNIXMODE.LONG, PatternFlags,
                       argumentv, li.LONG)
  IN  IF short.found
      THEN [found |-> TRUE, lastIndex |-> [li EXCEPT !.SHORT = short.lastIndex]]
      ELSE [found |-> long.found,
            lastIndex |-> [li EXCEPT !.SHORT = short.lastIndex,
                                     !.LONG = long.lastIndex]]

regexpTestFrom(unixmode, argumentv, li) ==
  IF unixmode THEN UnixmodeTestFrom(argumentv, li) ELSE SimpleTestFrom(argumentv, li)

\* argumentsv.every(argumentv => regexp.test(argumentv)): it stops at the
\* first token that fails
RECURSIVE everyFrom(_, _, _)
everyFrom(unixmode, argumentsv, li) ==
  IF Len(argumentsv) = 0 THEN [found |-> TRUE, lastIndex |-> li]
  ELSE LET r == regexpTestFrom(unixmode, Head(argumentsv), li)
       IN  IF ~r.found THEN r
           ELSE everyFrom(unixmode, Tail(argumentsv), r.lastIndex)

\* argv2Object(unixmode) when the pattern objects have the lastIndex li: its
\* completion and the lastIndex it leaves
argv2ObjectFrom(unixmodeArg, processArgv, li) ==
  LET unixmode == IF unixmodeArg = Undefined THEN Bool(FALSE) ELSE unixmodeArg
      argumentsv == slice2(processArgv)
      tested == everyFrom(unixmode.b, argumentsv, li)
  IN  IF unixmode.type # "boolean"
      THEN [completion |-> Throw("TypeError", THROWS_ERRORS_MESSAGES.INVALID_UNIXMODE_TYPE),
            lastIndex |-> li]
      ELSE IF Len(argumentsv) = 0
      THEN [completion |-> Throw("Error", THROWS_ERRORS_MESSAGES.NO_ARGUMENTS),
            lastIndex |-> li]
      ELSE IF ~tested.found
      THEN [completion |-> Throw("Error", mismatchMessage(unixmode.b)),
            lastIndex |-> tested.lastIndex]
      ELSE [completion |-> objectOf([i \in DOMAIN argumentsv |-> Entry(argumentsv[i])]),
            lastIndex |-> tested.lastIndex]

\* ------------------------------------------------------------------------
\* src/src/index.js: the CommonJS module
\* ------------------------------------------------------------------------
\* REGEXPS.UNIXMODE:
\* /^-[a-z]{1}|-[a-z]{1}=.*$|--[a-zA-Z]+|--[a-zA-Z]+(?:-[a-zA-Z]+)*=.*$/
index_UNIXMODE ==
  Alt(<<Cat(<<Bol, Lit("-"), Chr(Lower)>>),
        Cat(<<Lit("-"), Chr(Lower), Lit("="), Star(Dot), Eol>>),
        Cat(<<Lit("-"), Lit("-"), Plus(Chr(Alpha))>>),
        Cat(<<Lit("-"), Lit("-"), Plus(Chr(Alpha)),
              Star(Cat(<<Lit("-"), Plus(Chr(Alpha))>>)),
              Lit("="), Star(Dot), Eol>>)>>)

\* REGEXPS.SIMPLE: /^[a-zA-Z]+(?:-[a-zA-Z]+)*=.*$/
index_SIMPLE ==
  Cat(<<Bol, Plus(Chr(Alpha)), Star(Cat(<<Lit("-"), Plus(Chr(Alpha))>>)),
        Lit("="), Star(Dot), Eol>>)

index_ERRORS ==
  [NO_ARGS |-> "No arguments added",
   NO_MATCH_SIMPLE |-> "Some argument(s) do not follow the 'key=value' format.",
   NO_MATCH_UNIXMODE |->
     "Some argument(s) do not follow the Unix-style command-line format."]

\* ToBoolean(value), as the conditional operator applies it
ToBoolean(value) ==
  IF value.type = "boolean" THEN value.b
  ELSE IF value.type = "number"
       THEN value.n # NaN /\ ~(value.n.k = "fin" /\ value.n.m = 0)
  ELSE IF value.type = "string" THEN Len(value.s) > 0
  ELSE IF value.type = "undefined" THEN FALSE
  ELSE "null" \notin DOMAIN value

\* the callback of args.map: [key, value], the value left as it is
index_Entry(arg) ==
  LET kv == DestructureKV(arg)
  IN  [key |-> ReplaceHyphens(RemoveFirstMatch(LeadingDashes, kv.k.s)),
       value |-> IF kv.v = Undefined THEN Bool(TRUE) ELSE kv.v]

\* const argv2Object = (unixmode = false) => { ... }; module.exports = argv2Object
index_argv2Object(unixmodeArg, processArgv) ==
  LET unixmode == IF unixmodeArg = Undefined THEN Bool(FALSE) ELSE unixmodeArg
      regexp == IF ToBoolean(unixmode) THEN index_UNIXMODE ELSE index_SIMPLE
      args == slice2(processArgv)
  IN  IF Len(args) = 0 THEN Throw("Error", index_ERRORS.NO_ARGS)
      ELSE IF ~(\A i \in DOMAIN args : RegExpTest(regexp, args[i]))
      THEN Throw("Error", IF ToBoolean(unixmode) THEN index_ERRORS.NO_MATCH_UNIXMODE
                          ELSE index_ERRORS.NO_MATCH_SIMPLE)
      ELSE Return(Obj(fromEntries([i \in DOMAIN args |-> index_Entry(args[i])])))

\* ------------------------------------------------------------------------
\* src/index.cjs: module.exports = require('#argv2Object').default
\* ------------------------------------------------------------------------
cjs_argv2Object(unixmodeArg, processArgv) == argv2Object(unixmodeArg, processArgv)

\* ------------------------------------------------------------------------
\* Inputs
\* ------------------------------------------------------------------------
\* characters of the tokens: a letter, a digit, the hyphen, the equals sign
\* and a line terminator
TokenChars == {"a", "1", "-", "=", "\n"}

StringsOver(chars, n) == UNION {[1..k -> chars] : k \in 0..n}

RECURSIVE Sum(_)
Sum(l) == IF Len(l) = 0 THEN 0 ELSE l[1] + Sum(Tail(l))

\* the string w cut into consecutive tokens of the lengths lens
RECURSIVE Cut(_, _)
Cut(w, lens) ==
  IF Len(lens) = 0 THEN << >>
  ELSE <<SubSeq(w, 1, lens[1])>> \o Cut(SubSeq(w, lens[1] + 1, Len(w)), Tail(lens))

\* the lengths of the tokens of a list: at most MaxArgs tokens with at most
\* MaxChars characters in all
TokenLengths ==
  UNION {{l \in [1..n -> 0..MaxChars] : Sum(l) <= MaxChars} : n \in 0..MaxArgs}

node == <<"n", "o", "d", "e">>
script == <<"s", ".", "j", "s">>

Null == [type |-> "object", null |-> TRUE]

\* what a caller passes as unixmode: nothing, a boolean, or something else
ModeArgs == {Undefined, Bool(TRUE), Bool(FALSE), Num(Finite(FALSE, 12, 0)), Null}

Idle == [status |-> "idle"]

\* characters of the raw values handed to convertValue on their own
ValueChars == {"0", "1", ".", "-", "+", "e", "a", "x", " "}

\* longer raw values: the boolean literals and their near misses, numeric
\* prefixes, the spellings of the non-finite numbers
NamedValues ==
  {<<"t", "r", "u", "e">>,
   <<"f", "a", "l", "s", "e">>,
   <<"T", "r", "u", "e">>,
   <<"T", "R", "U", "E">>,
   <<"t", "r", "u", "e", "x">>,
   <<"x", "t", "r", "u", "e">>,
   <<"F", "a", "l", "s", "e">>,
   <<"f", "a", "l", "s", "e", "y">>,
   <<"1", "2", "a", "b", "c">>,
   <<"3", ".", "5", "x">>,
   <<"1", "-", "2">>,
   <<"I", "n", "f", "i", "n", "i", "t", "y">>,
   <<"-", "I", "n", "f", "i", "n", "i", "t", "y">>,
   <<"1", "e", "9", "9", "9">>,
   <<"t", "e", "x", "t">>,
   <<"N", "a", "N">>,
   <<"0", "x", "1", "f">>,
   <<"1", "e", "-", "7">>,
   <<"3", "0">>,
   <<"-", "1", ".", "5">>}

Pending == [type |-> "pending"]

VARIABLES
  argv,      \* process.argv
  unixmode,  \* the argument of the call of argv2Object
  outcome,   \* the completion of the call, Idle before it
  raw,       \* the argument of a call of convertValue on its own
  converted, \* what that call returned, Pending before it
  keyArg,    \* the key of a call of formatKey on its own
  modeArg,   \* the formatting mode of that call
  formatted, \* the completion of that call, Pending before it
  required,  \* the completion of the call through require(), Idle before it
  held,      \* the mapping of the latest returned call, as its caller has it
  lastIndex, \* the lastIndex of the pattern objects of the module
  argvAtCall \* process.argv as the latest call found it

vars == <<argv, unixmode, outcome, raw, converted, keyArg, modeArg, formatted,
          required, held, lastIndex, argvAtCall>>

\* the module is loaded and nothing has been called: the pattern objects
\* are created with lastIndex 0
ModuleLoaded ==
  /\ required = Idle
  /\ held = Idle
  /\ lastIndex = [SIMPLE |-> 0, SHORT |-> 0, LONG |-> 0]
  /\ argvAtCall = << >>

\* ------------------------------------------------------------------------
\* Spec: one call of argv2Object over any process.argv
\* ------------------------------------------------------------------------
\* process.argv holds the interpreter, the script, then the tokens (any list
\* over TokenChars within the bounds); or the host program has cut it shorter
Init ==
  /\ \/ argv \in {<< >>, <<node>>}
     \/ \E l \in TokenLengths : \E w \in [1..Sum(l) -> TokenChars] :
          argv = <<node, script>> \o Cut(w, l)
  /\ unixmode = Undefined
  /\ outcome = Idle
  /\ raw = Undefined
  /\ converted = Pending
  /\ keyArg = Undefined
  /\ modeArg = Undefined
  /\ formatted = Pending
  /\ ModuleLoaded

\* argv2Object(m)
Call(m) ==
  /\ outcome = Idle
  /\ unixmode' = m
  /\ outcome' = argv2Object(m, argv)
  /\ argv' = argvAfter(m, argv)
  /\ argvAtCall' = argv
  /\ UNCHANGED <<raw, converted, keyArg, modeArg, formatted,
                 required, held, lastIndex>>

Next == \E m \in ModeArgs : Call(m)

Spec == Init /\ [][Next]_vars

\* ------------------------------------------------------------------------
\* SpecConvert: one call of convertValue over any raw value
\* ------------------------------------------------------------------------
InitConvert ==
  /\ argv = <<node, script>>
  /\ unixmode = Undefined
  /\ outcome = Idle
  /\ \/ raw = Undefined
     \/ \E s \in StringsOver(ValueChars, MaxValLen) \cup NamedValues : raw = Str(s)
  /\ converted = Pending
  /\ keyArg = Undefined
  /\ modeArg = Undefined
  /\ formatted = Pending
  /\ ModuleLoaded

\* convertValue(raw)
Convert ==
  /\ converted = Pending
  /\ converted' = convertValue(raw)
  /\ UNCHANGED <<argv, unixmode, outcome, raw, keyArg, modeArg, formatted,
               required, held, lastIndex, argvAtCall>>

NextConvert == Convert

SpecConvert == InitConvert /\ [][NextConvert]_vars

\* ------------------------------------------------------------------------
\* SpecTokens: one call of argv2Object, with a boolean mode or none, over
\* options made of a key and a value
\* ------------------------------------------------------------------------
Dashes == {<< >>, <<"-">>, <<"-", "-">>}

RawKeys == {<<"a">>, <<"b", "-", "C">>}

RawValues ==
  {<< >>,
   <<"3", "0">>,
   <<"-", "1", ".", "5">>,
   <<"t", "r", "u", "e">>,
   <<"J", "o", "h", "n">>}

\* a key with no, one or two dashes in front, alone or with '=' and a value
OptionTokens ==
  {d \o k \o tail : d \in Dashes, k \in RawKeys,
                    tail \in {<< >>} \cup {<<"=">> \o v : v \in RawValues}}

\* the first two entries of process.argv: the interpreter and the script, or
\* what a host program has put there
Heads == {<<node, script>>, << <<"-", "a">>, <<"a", "=", "1">> >>}

\* process.argv cut shorter than two entries
ShortArgvs == {<< >>, <<node>>, << <<"a", "=", "1">> >>}

\* the argument lists of the test suite and of the duplicate-key example
ExampleArgvs ==
  {<< <<"n", "a", "m", "e", "=", "J", "o", "h", "n">>,
      <<"a", "g", "e", "=", "3", "0">>,
      <<"l", "e", "v", "e", "l", "=", "0">> >>,
   << <<"-", "h">>,
      <<"-", "-", "h", "e", "l", "p">>,
      <<"-", "-", "n", "a", "m", "e", "=", "J", "o", "h", "n">>,
      <<"-", "-", "i", "s", "-", "a", "d", "m", "i", "n">> >>,
   << <<"a", "=", "1">>, <<"a", "=", "2">> >>}

BooleanModeArgs == {Undefined, Bool(TRUE), Bool(FALSE)}

InitTokens ==
  /\ \/ argv \in ShortArgvs
     \/ \E h \in Heads : \E n \in 0..MaxArgs : \E a \in [1..n -> OptionTokens] :
          argv = h \o a
     \/ \E a \in ExampleArgvs : argv = <<node, script>> \o a
  /\ unixmode = Undefined
  /\ outcome = Idle
  /\ raw = Undefined
  /\ converted = Pending
  /\ keyArg = Undefined
  /\ modeArg = Undefined
  /\ formatted = Pending
  /\ ModuleLoaded

NextTokens == \E m \in BooleanModeArgs : Call(m)

SpecTokens == InitTokens /\ [][NextTokens]_vars

\* ------------------------------------------------------------------------
\* SpecFormat: one call of formatKey over any key and mode
\* ------------------------------------------------------------------------
\* characters of the keys: letters of either case, the hyphen and a digit
KeyChars == {"a", "b", "B", "-", "1"}

\* the keys of the examples of formatKey
NamedKeys ==
  {<<"-", "-", "o", "u", "t", "p", "u", "t", "-", "f", "o", "r", "m", "a", "t">>,
   <<"o", "u", "t", "p", "u", "t", "-", "f", "o", "r", "m", "a", "t">>,
   <<"o", "u", "t", "p", "u", "t", "-", "F", "o", "r", "m", "a", "t">>,
   <<"-", "-", "e", "n", "a", "b", "l", "e", "-", "l", "o", "g", "g", "i", "n", "g">>,
   <<"-", "v">>}

\* what a caller passes as mode: nothing, one of the two modes, another string
FormatModes == {Undefined, camelcase, snakecase, Str(<<"k", "e", "b", "a", "b">>)}

InitFormat ==
  /\ argv = <<node, script>>
  /\ unixmode = Undefined
  /\ outcome = Idle
  /\ raw = Undefined
  /\ converted = Pending
  /\ \/ keyArg \in {Undefined, Num(Finite(FALSE, 12, 0))}
     \/ \E s \in StringsOver(KeyChars, MaxChars) \cup NamedKeys : keyArg = Str(s)
  /\ modeArg \in FormatModes
  /\ formatted = Pending
  /\ ModuleLoaded

\* formatKey(key, mode)
Format ==
  /\ formatted = Pending
  /\ formatted' = formatKey(keyArg, modeArg)
  /\ UNCHANGED <<argv, unixmode, outcome, raw, converted, keyArg, modeArg,
               required, held, lastIndex, argvAtCall>>

NextFormat == Format

SpecFormat == InitFormat /\ [][NextFormat]_vars

\* ------------------------------------------------------------------------
\* SpecEntries: one call through the import entry and, with the same mode
\* and the same process.argv, one call through a require() entry
\* ------------------------------------------------------------------------
\* require('argv2object')(unixmode) where the package resolves to index.cjs
RequireCjs ==
  /\ outcome # Idle
  /\ required = Idle
  /\ required' = cjs_argv2Object(unixmode, argv)
  /\ UNCHANGED <<argv, unixmode, outcome, raw, converted, keyArg, modeArg, formatted,
                 held, lastIndex, argvAtCall>>

\* require(...)(unixmode) where the module loaded is src/index.js
RequireIndexJs ==
  /\ outcome # Idle
  /\ required = Idle
  /\ required' = index_argv2Object(unixmode, argv)
  /\ UNCHANGED <<argv, unixmode, outcome, raw, converted, keyArg, modeArg, formatted,
                 held, lastIndex, argvAtCall>>

NextEntries ==
  \/ \E m \in ModeArgs : Call(m)
  \/ RequireCjs
  \/ RequireIndexJs

SpecEntries == Init /\ [][NextEntries]_vars

\* ------------------------------------------------------------------------
\* SpecCalls: any sequence of calls of argv2Object in one process, while the
\* host program changes process.argv and the caller changes the mapping it
\* was given
\* ------------------------------------------------------------------------
\* the values process.argv takes in the course of the process
CallArgvs ==
  {<< >>,
   <<node, script>>,
   <<node, script, <<"a", "=", "1">> >>,
   <<node, script, <<"a", "=", "2">>, <<"b", "=">> >>,
   <<node, script, <<"b", "=", "t", "r", "u", "e">> >>,
   <<node, script, <<"-", "a">> >>,
   <<node, script, <<"-", "-", "a", "=", "1">>, <<"-", "b">> >>,
   <<node, script, <<"-", "a">>, <<"a", "=", "1">> >>}

InitCalls ==
  /\ argv \in CallArgvs
  /\ unixmode = Undefined
  /\ outcome = Idle
  /\ raw = Undefined
  /\ converted = Pending
  /\ keyArg = Undefined
  /\ modeArg = Undefined
  /\ formatted = Pending
  /\ ModuleLoaded

\* process.argv = a
SetArgv(a) ==
  /\ a # argv
  /\ argv' = a
  /\ UNCHANGED <<unixmode, outcome, raw, converted, keyArg, modeArg, formatted,
                 required, held, lastIndex, argvAtCall>>

\* argv2Object(m), any number of times; the caller keeps the mapping
CallAgain(m) ==
  LET result == argv2ObjectFrom(m, argv, lastIndex)
  IN  /\ unixmode' = m
      /\ outcome' = result.completion
      /\ lastIndex' = result.lastIndex
      /\ argvAtCall' = argv
      /\ argv' = argvAfter(m, argv)
      /\ held' = IF result.completion.status = "returned"
                 THEN [status |-> "held", props |-> result.completion.value.props]
                 ELSE held
      /\ UNCHANGED <<raw, converted, keyArg, modeArg, formatted, required>>

\* args.a = 'm', by the caller, on the mapping it was given
Mutate ==
  /\ held.status = "held"
  /\ held' = [held EXCEPT !.props =
                [p \in DOMAIN held.props \cup {<<"a">>} |->
                   IF p = <<"a">> THEN Str(<<"m">>) ELSE held.props[p]]]
  /\ held' # held
  /\ UNCHANGED <<argv, unixmode, outcome, raw, converted, keyArg, modeArg, formatted,
                 required, lastIndex, argvAtCall>>

NextCalls ==
  \/ \E a \in CallArgvs : SetArgv(a)
  \/ \E m \in ModeArgs : CallAgain(m)
  \/ Mutate

SpecCalls == InitCalls /\ [][NextCalls]_vars

\* ------------------------------------------------------------------------
\* Vocabulary of the properties
\* ------------------------------------------------------------------------
\* the token sequence of the call: process.argv without its first two entries
Tokens == SubSeq(argv, 3, Len(argv))

Called == outcome # Idle
Returned == outcome.status = "returned"

InvalidModeType ==
  outcome = Throw("TypeError", ERROR_MESSAGES.INVALID_UNIXMODE_TYPE)
EmptyArguments == outcome = Throw("Error", ERROR_MESSAGES.NO_ARGUMENTS)
FormatMismatchSimple == outcome = Throw("Error", ERROR_MESSAGES.NO_MATCH_SIMPLE)
FormatMismatchUnix == outcome = Throw("Error", ERROR_MESSAGES.NO_MATCH_UNIXMODE)

TrueLiteral == <<"t", "r", "u", "e">>
FalseLiteral == <<"f", "a", "l", "s", "e">>

\* the string is, as a whole, the numeral of a finite number
IsFiniteNumeral(s) ==
  /\ Len(TrimEnd(TrimStart(s))) > 0
  /\ StringToNumber(s).k = "fin"

\* the text before the first '=' of a token (the whole token without one)
BeforeFirstEquals(tok) ==
  IF FirstIndex(tok, {"="}) = 0 THEN tok
  ELSE SubSeq(tok, 1, FirstIndex(tok, {"="}) - 1)

\* the whole text after the first '=' of a token
AfterFirstEquals(tok) == SubSeq(tok, FirstIndex(tok, {"="}) + 1, Len(tok))

HasEquals(tok) == FirstIndex(tok, {"="}) # 0

\* the key a token is stored under: its raw key in snake form
KeyOf(tok) == formatKey(Str(BeforeFirstEquals(tok)), snakecase).value.s

\* ------------------------------------------------------------------------
\* C1
\* ------------------------------------------------------------------------
\* C1: a raw value that is not "true", not "false" and is not, as a whole,
\* the numeral of a finite number is returned by convertValue unchanged, as
\* the same string (a numeric prefix followed by other characters included).
C1_NonNumericReturnedUnchanged ==
  (/\ converted # Pending
   /\ raw.type = "string"
   /\ raw.s \notin {TrueLiteral, FalseLiteral}
   /\ ~IsFiniteNumeral(raw.s))
  => converted = raw

\* ------------------------------------------------------------------------
\* C2
\* ------------------------------------------------------------------------
\* C2: every accepted token with an '=' is split on its first '=' only: the
\* value stored under its key (when no later token has the same key) is the
\* conversion of the whole text after the first '=', further '=' included.
C2_SplitOnFirstEquals ==
  (Called /\ Returned) =>
    \A i \in DOMAIN Tokens :
      (/\ HasEquals(Tokens[i])
       /\ \A j \in DOMAIN Tokens : j > i => KeyOf(Tokens[j]) # KeyOf(Tokens[i]))
      => /\ KeyOf(Tokens[i]) \in DOMAIN outcome.value.props
         /\ outcome.value.props[KeyOf(Tokens[i])] =
              convertValue(Str(AfterFirstEquals(Tokens[i])))

\* ------------------------------------------------------------------------
\* The two grammars, stated on the shape of a token
\* ------------------------------------------------------------------------
\* one or more alphabetic segments joined by single hyphens
IsHyphenJoinedAlpha(name) ==
  /\ Len(name) >= 1
  /\ \A i \in DOMAIN name : name[i] \in Alpha \cup {"-"}
  /\ name[1] # "-"
  /\ name[Len(name)] # "-"
  /\ \A i \in 1..(Len(name) - 1) : ~(name[i] = "-" /\ name[i + 1] = "-")

\* a letter followed by letters, digits and hyphens in any arrangement
IsLetterThenNameChars(name) ==
  /\ Len(name) >= 1
  /\ name[1] \in Alpha
  /\ \A i \in DOMAIN name : name[i] \in Alpha \cup Digit \cup {"-"}

NoLineTerminator(s) == \A i \in DOMAIN s : s[i] \notin LineTerminator

\* '-' and exactly one letter
IsShortFlag(head) == Len(head) = 2 /\ head[1] = "-" /\ head[2] \in Alpha

\* '--' and a name of hyphen-joined alphabetic segments
IsLongFlagOfSegments(head) ==
  /\ Len(head) >= 3
  /\ head[1] = "-"
  /\ head[2] = "-"
  /\ IsHyphenJoinedAlpha(SubSeq(head, 3, Len(head)))

\* '--' and a letter followed by letters, digits and hyphens
IsLongFlagOfNameChars(head) ==
  /\ Len(head) >= 3
  /\ head[1] = "-"
  /\ head[2] = "-"
  /\ IsLetterThenNameChars(SubSeq(head, 3, Len(head)))

\* the Unix form as claimed: a short or long flag of alphabetic segments,
\* optionally followed by '=' and any value
IsUnixFormAnyValue(tok) ==
  IsShortFlag(BeforeFirstEquals(tok)) \/ IsLongFlagOfSegments(BeforeFirstEquals(tok))

\* the Unix form of the patterns: the long name is a letter followed by
\* letters, digits and hyphens, and a value has no line terminator
IsUnixForm(tok) ==
  /\ IsShortFlag(BeforeFirstEquals(tok)) \/ IsLongFlagOfNameChars(BeforeFirstEquals(tok))
  /\ HasEquals(tok) => NoLineTerminator(AfterFirstEquals(tok))

\* the simple form as claimed: hyphen-joined alphabetic segments, '=', then
\* any value
IsSimpleFormAnyValue(tok) ==
  HasEquals(tok) /\ IsHyphenJoinedAlpha(BeforeFirstEquals(tok))

\* the simple form of the pattern: the value has no line terminator
IsSimpleForm(tok) ==
  IsSimpleFormAnyValue(tok) /\ NoLineTerminator(AfterFirstEquals(tok))

UnixCall == Called /\ unixmode = Bool(TRUE)
SimpleCall == Called /\ unixmode = Bool(FALSE)

IsFlagCluster(tok) ==
  Len(tok) >= 3 /\ tok[1] = "-" /\ tok[2] \in Alpha /\ tok[3] \in Alpha

C5_SimpleAcceptsAnyValue ==
  (SimpleCall /\ Len(Tokens) > 0) =>
    IF \A i \in DOMAIN Tokens : IsSimpleFormAnyValue(Tokens[i])
    THEN Returned ELSE FormatMismatchSimple

\* C5 (amended): in simple mode a non-empty token sequence returns a mapping
\* if and only if every token is hyphen-joined alphabetic segments, then '=',
\* then any (possibly empty) value without line terminators; otherwise the
\* call fails with FormatMismatchSimple.
C5_SimpleAcceptsExactlyPattern ==
  (SimpleCall /\ Len(Tokens) > 0) =>
    IF \A i \in DOMAIN Tokens : IsSimpleForm(Tokens[i])
    THEN Returned ELSE FormatMismatchSimple

\* a simple call that accepted a key of two segments and a key with an
\* empty value
C5_Witness ==
  /\ SimpleCall
  /\ Returned
  /\ \E i \in DOMAIN Tokens : FirstIndex(BeforeFirstEquals(Tokens[i]), {"-"}) # 0
  /\ \E i \in DOMAIN Tokens : AfterFirstEquals(Tokens[i]) = << >>

\* ------------------------------------------------------------------------
\* C6
\* ------------------------------------------------------------------------
\* the token has the form of the grammar the mode selects
IsActiveForm(mode, tok) == IF mode.b THEN IsUnixForm(tok) ELSE IsSimpleForm(tok)

BooleanCall == Called /\ unixmode.type = "boolean"

NonBooleanCall == Called /\ unixmode # Undefined /\ unixmode.type # "boolean"

\* C8: a call with a mode argument that is not a boolean fails with
\* InvalidModeType whatever the tokens are, an empty sequence and malformed
\* tokens included.
C8_NonBooleanModeFails == NonBooleanCall => InvalidModeType

\* a call with a non-boolean mode and no token that failed with
\* InvalidModeType
C8_Witness == NonBooleanCall /\ Len(Tokens) = 0 /\ Len(argv) = 2 /\ InvalidModeType

\* ------------------------------------------------------------------------
\* C9
\* ------------------------------------------------------------------------
\* C9: for mode = false and for mode = true, a call over an empty token
\* sequence fails with EmptyArguments and returns no mapping.
C9_EmptyArgumentsFail == (BooleanCall /\ Len(Tokens) = 0) => EmptyArguments

\* a Unix call over the interpreter and the script alone that failed with
\* EmptyArguments
C9_Witness == UnixCall /\ argv = <<node, script>> /\ EmptyArguments

CoercedValueOf(tok) ==
  IF HasEquals(tok) THEN convertValue(Str(AfterFirstEquals(tok))) ELSE Bool(TRUE)

\* the position of the last token whose formatted key is k
LastWithKey(k) == Max({i \in DOMAIN Tokens : KeyOf(Tokens[i]) = k})

SimpleModeCall == Called /\ unixmode \in {Undefined, Bool(FALSE)}

ConvertedString == converted # Pending /\ raw.type = "string"

\* C13: convertValue maps exactly the literal "true" to the boolean true and
\* exactly the literal "false" to the boolean false; no other spelling
\* (another case, characters around the literal) is converted to a boolean.
C13_BooleanLiteralsOnly ==
  ConvertedString =>
    /\ raw.s = TrueLiteral => converted = Bool(TRUE)
    /\ raw.s = FalseLiteral => converted = Bool(FALSE)
    /\ raw.s \notin {TrueLiteral, FalseLiteral} => converted.type # "boolean"

\* the literal "false" converted to the boolean false
C13_Witness == ConvertedString /\ raw.s = FalseLiteral /\ converted = Bool(FALSE)

\* ------------------------------------------------------------------------
\* C14
\* ------------------------------------------------------------------------
\* an optional '-', digits, and optionally a '.' and digits
IsPlainDecimal(s) ==
  LET body == IF Len(s) > 0 /\ s[1] = "-" THEN Tail(s) ELSE s
      dot == FirstIndex(body, {"."})
      int == IF dot = 0 THEN body ELSE SubSeq(body, 1, dot - 1)
      frac == IF dot = 0 THEN <<"0">> ELSE SubSeq(body, dot + 1, Len(body))
  IN  /\ Len(int) >= 1
      /\ Len(frac) >= 1
      /\ \A i \in DOMAIN int : int[i] \in Digit
      /\ \A i \in DOMAIN frac : frac[i] \in Digit

\* m * 10^e without trailing zeros in m
RECURSIVE Normalised(_, _)
Normalised(m, e) ==
  IF m = 0 THEN <<0, 0>>
  ELSE IF m % 10 = 0 THEN Normalised(m \div 10, e + 1)
  ELSE <<m, e>>

\* the magnitude of a plain decimal, as m * 10^e
PlainDecimalMagnitude(s) ==
  LET body == IF s[1] = "-" THEN Tail(s) ELSE s
      dot == FirstIndex(body, {"."})
      digits == SelectSeq(body, LAMBDA c : c # ".")
  IN  Normalised(DigitsValue(digits, 10), IF dot = 0 THEN 0 ELSE dot - Len(body))

\* the number n has the numeric value of the plain decimal s
HasValueOf(n, s) ==
  /\ n.type = "number"
  /\ n.n.k = "fin"
  /\ <<n.n.m, n.n.e>> = PlainDecimalMagnitude(s)
  /\ n.n.m # 0 => (n.n.neg <=> s[1] = "-")

HasEmptyValue(tok) == HasEquals(tok) /\ AfterFirstEquals(tok) = << >>

\* the token is a key of the claimed form of the mode and an '=' alone
IsKeyWithEmptyValue(m, tok) ==
  /\ HasEmptyValue(tok)
  /\ IF m.b THEN IsUnixFormAnyValue(tok) ELSE IsSimpleFormAnyValue(tok)

RECURSIVE WithoutLeadingDashes(_)
WithoutLeadingDashes(s) ==
  IF Len(s) > 0 /\ s[1] = "-" THEN WithoutLeadingDashes(Tail(s)) ELSE s

HyphensToUnderscores(s) == [i \in DOMAIN s |-> IF s[i] = "-" THEN "_" ELSE s[i]]

\* the raw key of a token without its leading dashes, every hyphen left in
\* it replaced by an underscore, the case of the letters kept
SnakeKeyOf(tok) == HyphensToUnderscores(WithoutLeadingDashes(BeforeFirstEquals(tok)))

\* ["-h", "--help", "--name=John", "--is-admin"]
UnixExample ==
  << <<"-", "h">>,
     <<"-", "-", "h", "e", "l", "p">>,
     <<"-", "-", "n", "a", "m", "e", "=", "J", "o", "h", "n">>,
     <<"-", "-", "i", "s", "-", "a", "d", "m", "i", "n">> >>

\* {h: true, help: true, name: "John", is_admin: true}
UnixExampleObject ==
  (<<"h">> :> Bool(TRUE))
    @@ (<<"h", "e", "l", "p">> :> Bool(TRUE))
    @@ (<<"n", "a", "m", "e">> :> Str(<<"J", "o", "h", "n">>))
    @@ (<<"i", "s", "_", "a", "d", "m", "i", "n">> :> Bool(TRUE))

RECURSIVE CamelOf(_)
CamelOf(s) ==
  IF Len(s) = 0 THEN << >>
  ELSE IF s[1] = "-" /\ Len(s) >= 2 /\ s[2] \in Alpha
       THEN <<toUpperCase(s[2])>> \o CamelOf(SubSeq(s, 3, Len(s)))
       ELSE <<s[1]>> \o CamelOf(Tail(s))

FormattedString == formatted # Pending /\ keyArg.type = "string"

\* C17: with the camel policy, for every key made of hyphen-joined
\* alphabetic segments (letters of either case), formatKey removes every
\* hyphen that a letter follows and upper-cases that letter, so that the
\* result holds no hyphen.
C17_CamelRemovesHyphens ==
  (FormattedString /\ modeArg = camelcase /\ IsHyphenJoinedAlpha(keyArg.s)) =>
    /\ formatted = Return(Str(CamelOf(keyArg.s)))
    /\ \A i \in DOMAIN formatted.value.s : formatted.value.s[i] # "-"

\* ------------------------------------------------------------------------
\* C18
\* ------------------------------------------------------------------------
\* the key without its first dash, or its first two when it starts with two
WithoutOneOrTwoDashes(s) ==
  IF Len(s) >= 2 /\ s[1] = "-" /\ s[2] = "-" THEN SubSeq(s, 3, Len(s))
  ELSE IF Len(s) >= 1 /\ s[1] = "-" THEN Tail(s)
  ELSE s

\* C18: formatKey removes one or two leading dashes and nothing else from
\* the front of the key; with no casing mode it returns that key otherwise
\* unchanged, internal hyphens kept ("--enable-logging" becomes
\* "enable-logging"), and the snake policy works on that same key.
C18_StripsOneOrTwoDashes ==
  FormattedString =>
    /\ modeArg \notin {camelcase, snakecase} =>
         formatted = [status |-> "returned",
                      value |-> Str(WithoutOneOrTwoDashes(keyArg.s))]
    /\ modeArg = snakecase =>
         formatted = [status |-> "returned",
                      value |-> Str(HyphensToUnderscores(WithoutOneOrTwoDashes(keyArg.s)))]

\* "--enable-logging" formatted with no mode as "enable-logging"
C18_Witness ==
  /\ FormattedString
  /\ modeArg = Undefined
  /\ keyArg.s = <<"-", "-", "e", "n", "a", "b", "l", "e", "-",
                  "l", "o", "g", "g", "i", "n", "g">>
  /\ formatted.value.s = <<"e", "n", "a", "b", "l", "e", "-",
                           "l", "o", "g", "g", "i", "n", "g">>

\* ------------------------------------------------------------------------
\* C19
\* ------------------------------------------------------------------------
\* the four failures, by the name and the message the caller sees
InvalidModeTypeError ==
  [status |-> "threw", name |-> "TypeError",
   message |-> "The \"unixmode\" parameter must be a boolean value"]
EmptyArgumentsError ==
  [status |-> "threw", name |-> "Error",
   message |-> "No command-line arguments were provided"]
FormatMismatchSimpleError ==
  [status |-> "threw", name |-> "Error",
   message |-> "Arguments must follow \"key=value\" format"]
FormatMismatchUnixError ==
  [status |-> "threw", name |-> "Error",
   message |-> "Arguments must follow Unix-style format (-a, --option=value)"]

FailureKinds ==
  {InvalidModeTypeError, EmptyArgumentsError, FormatMismatchSimpleError,
   FormatMismatchUnixError}

FromThird == 3..Len(argv)

\* the entry has the form of the grammar of the call
HasFormOfCall(tok) == IF unixmode = Bool(TRUE) THEN IsUnixForm(tok) ELSE IsSimpleForm(tok)

OmittedModeCall == Called /\ unixmode = Undefined

\* C21: a call with the mode argument omitted behaves, for every token
\* sequence, as the call with mode = false does: the same mapping or the
\* same error; that is EmptyArguments without tokens, FormatMismatchSimple
\* when a token has not the simple form, and a mapping otherwise.
C21_OmittedModeIsFalse ==
  OmittedModeCall =>
    /\ outcome = argv2Object(Bool(FALSE), argv)
    /\ Len(Tokens) = 0 => outcome = EmptyArgumentsError
    /\ (Len(Tokens) > 0 /\ \E i \in DOMAIN Tokens : ~IsSimpleForm(Tokens[i]))
         => outcome = FormatMismatchSimpleError
    /\ (Len(Tokens) > 0 /\ \A i \in DOMAIN Tokens : IsSimpleForm(Tokens[i]))
         => Returned

\* a call without a mode that returned the mapping of simple tokens
C21_Witness ==
  /\ OmittedModeCall
  /\ Returned
  /\ Len(Tokens) > 0
  /\ outcome = argv2Object(Bool(FALSE), argv)

\* ------------------------------------------------------------------------
\* C22
\* ------------------------------------------------------------------------
\* the kind of a failure, whatever the wording of its message
KindOf(completion) ==
  IF completion.message \in {ERROR_MESSAGES.INVALID_UNIXMODE_TYPE} THEN "InvalidModeType"
  ELSE IF completion.message \in {ERROR_MESSAGES.NO_ARGUMENTS, index_ERRORS.NO_ARGS}
       THEN "EmptyArguments"
  ELSE IF completion.message \in
            {ERROR_MESSAGES.NO_MATCH_SIMPLE, index_ERRORS.NO_MATCH_SIMPLE}
       THEN "FormatMismatchSimple"
  ELSE IF completion.message \in
            {ERROR_MESSAGES.NO_MATCH_UNIXMODE, index_ERRORS.NO_MATCH_UNIXMODE}
       THEN "FormatMismatchUnix"
  ELSE "other"

\* equal mappings, or failures of the same kind
SameOutcome(a, b) ==
  IF a.status = "returned" \/ b.status = "returned" THEN a = b
  ELSE KindOf(a) = KindOf(b)

\* C22: the import entry point and the require entry point expose the same
\* behaviour: for every mode and token sequence the two calls have the same
\* outcome, an equal mapping or an error of the same kind.
C22_EntriesAgree ==
  (Called /\ required # Idle) => SameOutcome(outcome, required)

\* ------------------------------------------------------------------------
\* C23
\* ------------------------------------------------------------------------
\* the failure formatKey raises for a key that is not a string
InvalidKeyTypeError ==
  [status |-> "threw", name |-> "TypeError", message |-> "Key must be a string"]

IsMapping(completion) ==
  completion.status = "returned" /\ completion.value.type = "object"

TokensAtCall == SubSeq(argvAtCall, 3, Len(argvAtCall))

\* the token has the form of the grammar the mode value selects
HasFormOf(m, tok) == IF m = Bool(TRUE) THEN IsUnixForm(tok) ELSE IsSimpleForm(tok)

\* the position, among the tokens the latest call found, of the last one
\* whose snake-case key is k
LastAtCallWithKey(k) ==
  Max({i \in DOMAIN TokensAtCall : SnakeKeyOf(TokensAtCall[i]) = k})

\* the caller holds a mapping an earlier call returned and has written to it
HoldsMutatedMapping ==
  /\ held.status = "held"
  /\ <<"a">> \in DOMAIN held.props
  /\ held.props[<<"a">>] = Str(<<"m">>)

C25_ArgvNotModified ==
  Called =>
    /\ Len(argv) = Len(argvAtCall)
    /\ \A i \in DOMAIN argvAtCall : argv[i] = argvAtCall[i]

\* a call that returned a mapping of two tokens
C25_Witness ==
  /\ Called
  /\ Returned
  /\ Len(argvAtCall) = 4
  /\ argv = argvAtCall

\* ------------------------------------------------------------------------
\* C26
\* ------------------------------------------------------------------------
\* a boolean, a string or a finite number
IsBooleanStringOrFinite(v) ==
  \/ v.type = "boolean"
  \/ v.type = "string"
  \/ v.type = "number" /\ v.n.k = "fin"

\* C26: every value stored in a returned mapping is a boolean, a string or
\* a finite number: no returned mapping holds NaN, +Infinity or -Infinity.
C26_ValuesAreFinite ==
  (Called /\ Returned) =>
    \A k \in DOMAIN outcome.value.props :
      IsBooleanStringOrFinite(outcome.value.props[k])

\* ------------------------------------------------------------------------
\* C27
\* ------------------------------------------------------------------------
\* the keys of the returned mapping
ReturnedKeys == DOMAIN outcome.value.props

\* a non-empty key that begins with a letter and holds neither '-' nor '='
IsWellFormedKey(k) ==
  /\ Len(k) >= 1
  /\ k[1] \in Alpha
  /\ \A i \in DOMAIN k : k[i] # "-" /\ k[i] # "="

====
